---- MODULE Spec2Model ----
(***************************************************************************)
(* Model of the audio tagging bot of src/main.py.                          *)
(*                                                                         *)
(* The six module-level dictionaries are functions whose DOMAIN is the set *)
(* of keys present.  The temporary directory is the function fs from the   *)
(* paths that exist to the content of the file.  The application is built  *)
(* without concurrent_updates (main, line 240), so one handler runs at a   *)
(* time; a handler is split at its await points, one action per await: the *)
(* action performs the awaited I/O (a reply, a download) and then the      *)
(* synchronous code up to the next await.                                  *)
(***************************************************************************)
EXTENDS Naturals, Sequences, FiniteSets

VARIABLES user_audio_path, user_image_path, user_title, user_artist,
          user_waiting_for, user_processed, HAVE_PYDUB,
          fs, nextTmp, chat_users, file_limit, h, replies, old,
          pipeline_runs, unlink_calls, event_limit, events

Store == <<user_audio_path, user_image_path, user_title, user_artist,
           user_waiting_for, user_processed>>

vars == <<user_audio_path, user_image_path, user_title, user_artist,
          user_waiting_for, user_processed, HAVE_PYDUB,
          fs, nextTmp, chat_users, file_limit, h, replies, old,
          pipeline_runs, unlink_calls, event_limit, events>>

(* ---------------- bounds and input domains ---------------- *)

\* number of temporary files the process creates in one run
MaxFiles == 3

Users == {"u1", "u2"}

Texts == {"T1"}

Buttons == {"setimage", "settitle", "setartist", "finish"}

Images == {"img1"}

(* ---------------- files and tags ---------------- *)

\* a text frame is the list of its strings; <<>> stands for "frame absent"
NoFrame == <<>>

NoTags == [TIT2 |-> NoFrame, TPE1 |-> NoFrame, APIC |-> {}]

NoPath == <<0, "">>

\* the ID3 picture type "front cover" (line 191: type=3)
FrontCover == 3

OldPic == [desc |-> "a", data |-> "jpegOld", type |-> FrontCover, mime |-> "image/png"]

OldPic2 == [desc |-> "b", data |-> "jpegOld2", type |-> 4, mime |-> "image/jpeg"]

\* the metadata of an uploaded file that carries some
TitleOnly == [TIT2 |-> <<"oldT">>, TPE1 |-> NoFrame, APIC |-> {}]

ArtistOnly == [TIT2 |-> NoFrame, TPE1 |-> <<"oldA">>, APIC |-> {OldPic}]

FullTags == [TIT2 |-> <<"oldT">>, TPE1 |-> <<"oldA">>, APIC |-> {OldPic, OldPic2}]

AudioFile(isMp3, tags) == [kind |-> "audio", mp3 |-> isMp3, tags |-> tags, img |-> ""]

ImageFile(i) == [kind |-> "image", mp3 |-> FALSE, tags |-> NoTags, img |-> i]

EmptyFile == [kind |-> "empty", mp3 |-> FALSE, tags |-> NoTags, img |-> ""]

\* what a user can upload as audio
Uploads ==
  {AudioFile(TRUE, NoTags), AudioFile(TRUE, TitleOnly), AudioFile(TRUE, ArtistOnly),
   AudioFile(TRUE, FullTags), AudioFile(FALSE, FullTags)}

(* ---------------- dictionaries ---------------- *)

Pop_Clear(d, k) == [x \in {} |-> d[x]]

Pop(d, k) == [x \in (DOMAIN d) \ {k} |-> d[x]]

Put(d, k, v) == [x \in (DOMAIN d) \cup {k} |-> IF x = k THEN v ELSE d[x]]

\* d.get(k) evaluated for truth
Truthy(d, k) == k \in DOMAIN d /\ d[k]

\* user_image_path.get(user_id)
GetPath(d, k) == IF k \in DOMAIN d THEN d[k] ELSE NoPath

(* ---------------- utilities ---------------- *)

_is_mp3(f, path) == path \in DOMAIN f /\ f[path].kind = "audio" /\ f[path].mp3

\* src_path + ".mp3"
Mp3Path(p) == <<p[1], ".mp3">>

\* AudioSegment.from_file + export: the samples re-encoded; export is given
\* no tags argument, so the new file carries no metadata
Exported(c) == AudioFile(TRUE, NoTags)

_prepare_cover_image_to_jpeg_bytes(c) == IF c.img = "img1" THEN "jpeg1" ELSE "jpeg?"

Unlink(f, p) == [x \in (DOMAIN f) \ {p} |-> f[x]]

\* one more call recorded for key k
Counted(c, k) == Put(c, k, IF k \in DOMAIN c THEN c[k] + 1 ELSE 1)

Idle == [kind |-> "none", user |-> "", pc |-> "idle", data |-> "",
         tmp |-> NoPath, orig |-> NoPath, work |-> NoPath,
         image_path |-> NoPath, pre |-> NoTags, src |-> NoTags]

NoOld == <<>>

\* The state after import: empty dictionaries, an empty temporary directory,
\* HAVE_PYDUB as the import of lines 18-22 went.  chat_users are the users
\* who talk to the bot in this run; nextTmp numbers the temporary files, so
\* that every NamedTemporaryFile gets a name not used before, file_limit is
\* how many of them this run creates.  pipeline_runs and unlink_calls are
\* history: the uploaded files the pipeline was started on, and how often
\* os.unlink was called on each path.
Init ==
  /\ user_audio_path = <<>>
  /\ user_image_path = <<>>
  /\ user_title = <<>>
  /\ user_artist = <<>>
  /\ user_waiting_for = <<>>
  /\ user_processed = <<>>
  /\ HAVE_PYDUB \in BOOLEAN
  /\ fs = <<>>
  /\ nextTmp = 1
  /\ chat_users = {"u1"}
  /\ file_limit = MaxFiles
  /\ pipeline_runs = {}
  /\ unlink_calls = <<>>
  /\ event_limit = 0
  /\ events = 0
  /\ h = Idle
  /\ replies = <<>>
  /\ old = NoOld

\* a run with two users: the updates it handles and the files it creates
TwoUserEvents == 5

TwoUserFiles == 2

\* the same state, with both users talking to the bot
InitTwoUsers ==
  /\ user_audio_path = <<>>
  /\ user_image_path = <<>>
  /\ user_title = <<>>
  /\ user_artist = <<>>
  /\ user_waiting_for = <<>>
  /\ user_processed = <<>>
  /\ HAVE_PYDUB \in BOOLEAN
  /\ fs = <<>>
  /\ nextTmp = 1
  /\ chat_users = Users
  /\ file_limit = TwoUserFiles
  /\ pipeline_runs = {}
  /\ unlink_calls = <<>>
  /\ event_limit = TwoUserEvents
  /\ events = 0
  /\ h = Idle
  /\ replies = <<>>
  /\ old = NoOld

(* ---------------- shared pieces ---------------- *)

\* the dispatcher hands the next update to its handler; a run with an
\* event_limit takes that many updates (0: no limit)
Begin ==
  /\ h.pc = "idle"
  /\ event_limit = 0 \/ events < event_limit
  /\ events' = IF event_limit = 0 THEN events ELSE events + 1
  /\ old' = Store
  /\ replies' = <<>>

Reply(r) == replies' = Append(replies, r)

\* ask_next_action up to its await: nothing when the user is processed,
\* otherwise the menu is about to be sent
ask_next_action(processed, u) == IF Truthy(processed, u) THEN "done" ELSE "menu"

\* the await of ask_next_action completes: the menu is delivered
MenuSent ==
  /\ h.pc = "menu"
  /\ Reply([kind |-> "menu", tags |-> NoTags])
  /\ h' = [h EXCEPT !.pc = "done"]
  /\ UNCHANGED <<user_audio_path, user_image_path, user_title, user_artist,
                 user_waiting_for, user_processed, HAVE_PYDUB, fs, nextTmp, chat_users, file_limit, event_limit, events,
                 pipeline_runs, unlink_calls, old>>

\* the handler has returned; the dispatcher takes the next update
Return ==
  /\ h.pc = "done"
  /\ h' = Idle
  /\ replies' = <<>>
  /\ old' = NoOld
  /\ UNCHANGED <<user_audio_path, user_image_path, user_title, user_artist,
                 user_waiting_for, user_processed, HAVE_PYDUB, fs, nextTmp, chat_users, file_limit, event_limit, events,
                 pipeline_runs, unlink_calls>>

(* ---------------- /start ---------------- *)

start(u) ==
  /\ Begin
  /\ h' = [Idle EXCEPT !.kind = "start", !.user = u, !.pc = "st_reply"]
  /\ UNCHANGED <<user_audio_path, user_image_path, user_title, user_artist,
                 user_waiting_for, user_processed, HAVE_PYDUB, fs, nextTmp, chat_users, file_limit, event_limit,
                 pipeline_runs, unlink_calls>>

StartReplied ==
  /\ h.pc = "st_reply"
  /\ Reply([kind |-> "intro", tags |-> NoTags])
  /\ h' = [h EXCEPT !.pc = "done"]
  /\ UNCHANGED <<user_audio_path, user_image_path, user_title, user_artist,
                 user_waiting_for, user_processed, HAVE_PYDUB, fs, nextTmp, chat_users, file_limit, event_limit, events,
                 pipeline_runs, unlink_calls, old>>

(* ---------------- handle_audio ---------------- *)

\* lines 83-84: up to "await msg.audio.get_file()"
handle_audio(u) ==
  /\ Begin
  /\ nextTmp <= file_limit
  /\ h' = [Idle EXCEPT !.kind = "audio", !.user = u, !.pc = "au_getfile"]
  /\ UNCHANGED <<user_audio_path, user_image_path, user_title, user_artist,
                 user_waiting_for, user_processed, HAVE_PYDUB, fs, nextTmp, chat_users, file_limit, event_limit,
                 pipeline_runs, unlink_calls>>

\* lines 85-89: the temporary file is created, the download is awaited
AudioGotFile ==
  /\ h.pc = "au_getfile"
  /\ fs' = Put(fs, <<nextTmp, "">>, EmptyFile)
  /\ nextTmp' = nextTmp + 1
  /\ h' = [h EXCEPT !.pc = "au_download", !.tmp = <<nextTmp, "">>]
  /\ UNCHANGED <<user_audio_path, user_image_path, user_title, user_artist,
                 user_waiting_for, user_processed, HAVE_PYDUB, chat_users, file_limit, event_limit, events,
                 pipeline_runs, unlink_calls, replies, old>>

ResetSession_KeepsProcessed(u, path) ==
  /\ user_audio_path' = Put(user_audio_path, u, path)
  /\ user_image_path' = Pop(user_image_path, u)
  /\ user_title' = Pop(user_title, u)
  /\ user_artist' = Pop(user_artist, u)
  /\ user_processed' = IF u \in DOMAIN user_processed THEN user_processed
                       ELSE Put(user_processed, u, FALSE)

ResetSession_KeepsTitle(u, path) ==
  /\ user_audio_path' = Put(user_audio_path, u, path)
  /\ user_image_path' = Pop(user_image_path, u)
  /\ user_title' = user_title
  /\ user_artist' = Pop(user_artist, u)
  /\ user_processed' = Put(user_processed, u, FALSE)

\* lines 92-96
ResetSession(u, path) ==
  /\ user_audio_path' = Put(user_audio_path, u, path)
  /\ user_image_path' = Pop(user_image_path, u)
  /\ user_title' = Pop(user_title, u)
  /\ user_artist' = Pop(user_artist, u)
  /\ user_processed' = Put(user_processed, u, FALSE)

\* the download completes; lines 91-98 up to the await in ask_next_action
AudioDownloaded ==
  /\ h.pc = "au_download"
  /\ \E c \in Uploads : fs' = Put(fs, h.tmp, c)
  /\ ResetSession(h.user, h.tmp)
  /\ h' = [h EXCEPT !.pc = ask_next_action(user_processed', h.user)]
  /\ UNCHANGED <<user_waiting_for, HAVE_PYDUB, nextTmp, chat_users, file_limit, event_limit, events,
                 pipeline_runs, unlink_calls, replies, old>>

(* ---------------- handle_callback ---------------- *)

\* lines 101-103: up to "await query.answer()".  A button is part of a menu
\* message, and this process sends a user's first menu after that user's
\* first upload (line 98), which is also what creates user_processed[u].
handle_callback(u, d) ==
  /\ Begin
  /\ u \in DOMAIN user_processed
  /\ h' = [Idle EXCEPT !.kind = "callback", !.user = u, !.data = d, !.pc = "cb_answer"]
  /\ UNCHANGED <<user_audio_path, user_image_path, user_title, user_artist,
                 user_waiting_for, user_processed, HAVE_PYDUB, fs, nextTmp, chat_users, file_limit, event_limit,
                 pipeline_runs, unlink_calls>>

AlreadyProcessed_Never(u) == FALSE

\* line 105
AlreadyProcessed(u) == Truthy(user_processed, u)

\* lines 110-118: the field a set-button asks for
WaitingFor(d) ==
  IF d = "setimage" THEN "image" ELSE IF d = "settitle" THEN "title" ELSE "artist"

MergeField_KeepsExisting(d, u, existing) ==
  IF existing # NoFrame THEN existing ELSE IF u \in DOMAIN d THEN <<d[u]>> ELSE existing

\* lines 197-205, one text frame: the session's value when it is set and
\* not empty, otherwise the frame the file already has
MergeField(d, u, existing) ==
  IF u \in DOMAIN d /\ d[u] # "" THEN <<d[u]>> ELSE existing

\* lines 186-191: every APIC frame is deleted, the new cover is added
NewCover(image_path, f) ==
  [desc |-> "Cover", data |-> _prepare_cover_image_to_jpeg_bytes(f[image_path]),
   type |-> FrontCover, mime |-> "image/jpeg"]

SetCover_KeepsOld(tags, image_path, f) ==
  IF image_path # NoPath
  THEN [tags EXCEPT !.APIC = @ \cup {NewCover(image_path, f)}]
  ELSE tags

SetCover(tags, image_path, f) ==
  IF image_path # NoPath
  THEN [tags EXCEPT !.APIC = {NewCover(image_path, f)}]
  ELSE tags

\* lines 181-207: the tags that audio.save writes
ApplyTags(tags, u, image_path, f) ==
  LET t == SetCover(tags, image_path, f)
  IN  [t EXCEPT !.TIT2 = MergeField(user_title, u, t.TIT2),
                !.TPE1 = MergeField(user_artist, u, t.TPE1)]

\* lines 174-178, the except branch: the error reply is awaited
ConversionError ==
  /\ h' = [h EXCEPT !.pc = "ps_converr", !.orig = user_audio_path[h.user],
                    !.image_path = GetPath(user_image_path, h.user)]
  /\ UNCHANGED fs

\* lines 180-214: the try block up to "await reply_document"; any statement
\* of it may raise, which leads to the except branch of line 219
Tagging(u, orig, work, image_path, f) ==
  LET hh == [h EXCEPT !.orig = orig, !.work = work, !.image_path = image_path,
                      !.pre = f[work].tags, !.src = f[orig].tags]
  IN \E raised \in BOOLEAN :
       IF raised
       THEN /\ fs' = f
            /\ h' = [hh EXCEPT !.pc = "ps_tagfail"]
       ELSE /\ fs' = Put(f, work, [f[work] EXCEPT !.tags = ApplyTags(f[work].tags, u, image_path, f)])
            /\ h' = [hh EXCEPT !.pc = "ps_doc"]

\* lines 166-214 up to the first await
process_and_send(u) ==
  IF u \notin DOMAIN user_audio_path
  THEN /\ h' = [h EXCEPT !.pc = "ps_noaudio"]
       /\ UNCHANGED <<fs, pipeline_runs>>
  ELSE LET orig == user_audio_path[u]
           image_path == GetPath(user_image_path, u)
       IN  /\ pipeline_runs' = pipeline_runs \cup {orig}
           /\ \/ /\ _is_mp3(fs, orig)
                 /\ Tagging(u, orig, orig, image_path, fs)
              \/ /\ ~_is_mp3(fs, orig)
                 /\ ~HAVE_PYDUB
                 /\ ConversionError
              \/ /\ ~_is_mp3(fs, orig)
                 /\ HAVE_PYDUB
                 /\ \E converted \in BOOLEAN :
                      IF converted
                      THEN Tagging(u, orig, Mp3Path(orig), image_path,
                                   Put(fs, Mp3Path(orig), Exported(fs[orig])))
                      ELSE ConversionError

\* query.answer() returned; lines 105-120 up to the next await
CallbackAnswered ==
  /\ h.pc = "cb_answer"
  /\ IF AlreadyProcessed(h.user)
     THEN /\ h' = [h EXCEPT !.pc = "cb_already"]
          /\ UNCHANGED <<user_waiting_for, fs, pipeline_runs>>
     ELSE IF h.data = "finish"
     THEN /\ process_and_send(h.user)
          /\ UNCHANGED user_waiting_for
     ELSE /\ user_waiting_for' = Put(user_waiting_for, h.user, WaitingFor(h.data))
          /\ h' = [h EXCEPT !.pc = "cb_prompt"]
          /\ UNCHANGED <<fs, pipeline_runs>>
  /\ UNCHANGED <<user_audio_path, user_image_path, user_title, user_artist,
                 user_processed, HAVE_PYDUB, nextTmp, chat_users, file_limit, event_limit, events,
                 unlink_calls, replies, old>>

\* line 107
AlreadySent ==
  /\ h.pc = "cb_already"
  /\ Reply([kind |-> "already", tags |-> NoTags])
  /\ h' = [h EXCEPT !.pc = "done"]
  /\ UNCHANGED <<user_audio_path, user_image_path, user_title, user_artist,
                 user_waiting_for, user_processed, HAVE_PYDUB, fs, nextTmp, chat_users, file_limit, event_limit, events,
                 pipeline_runs, unlink_calls, old>>

\* lines 112, 115, 118
PromptSent ==
  /\ h.pc = "cb_prompt"
  /\ Reply([kind |-> "prompt", tags |-> NoTags])
  /\ h' = [h EXCEPT !.pc = "done"]
  /\ UNCHANGED <<user_audio_path, user_image_path, user_title, user_artist,
                 user_waiting_for, user_processed, HAVE_PYDUB, fs, nextTmp, chat_users, file_limit, event_limit, events,
                 pipeline_runs, unlink_calls, old>>

NoAudioSent_Purges ==
  /\ h.pc = "ps_noaudio"
  /\ Reply([kind |-> "no_audio", tags |-> NoTags])
  /\ user_waiting_for' = Pop(user_waiting_for, h.user)
  /\ h' = [h EXCEPT !.pc = "done"]
  /\ UNCHANGED <<user_audio_path, user_image_path, user_title, user_artist,
                 user_processed, HAVE_PYDUB, fs, nextTmp, chat_users, file_limit, event_limit, events,
                 pipeline_runs, unlink_calls, old>>

\* line 168
NoAudioSent ==
  /\ h.pc = "ps_noaudio"
  /\ Reply([kind |-> "no_audio", tags |-> NoTags])
  /\ h' = [h EXCEPT !.pc = "done"]
  /\ UNCHANGED <<user_audio_path, user_image_path, user_title, user_artist,
                 user_waiting_for, user_processed, HAVE_PYDUB, fs, nextTmp, chat_users, file_limit, event_limit, events,
                 pipeline_runs, unlink_calls, old>>

\* lines 177-178: the reply, then return
ConversionErrorSent ==
  /\ h.pc = "ps_converr"
  /\ Reply([kind |-> "conv_error", tags |-> NoTags])
  /\ h' = [h EXCEPT !.pc = "done"]
  /\ UNCHANGED <<user_audio_path, user_image_path, user_title, user_artist,
                 user_waiting_for, user_processed, HAVE_PYDUB, fs, nextTmp, chat_users, file_limit, event_limit, events,
                 pipeline_runs, unlink_calls, old>>

Unlinked_WorkingCopyOnly(f, work, orig, image_path) ==
  LET f1 == Unlink(f, work)
  IN  IF image_path # NoPath THEN Unlink(f1, image_path) ELSE f1

\* lines 223-230: the three unlinks, a missing file is skipped
Unlinked(f, work, orig, image_path) ==
  LET f1 == Unlink(f, work)
      f2 == IF work # orig THEN Unlink(f1, orig) ELSE f1
  IN  IF image_path # NoPath THEN Unlink(f2, image_path) ELSE f2

UnlinkArgs_NoGuard(work, orig, image_path) ==
  <<work, orig>> \o (IF image_path # NoPath THEN <<image_path>> ELSE <<>>)

\* lines 223-230: the paths os.unlink is called on, in order
UnlinkArgs(work, orig, image_path) ==
  <<work>> \o (IF work # orig THEN <<orig>> ELSE <<>>)
           \o (IF image_path # NoPath THEN <<image_path>> ELSE <<>>)

RECURSIVE CountedAll(_, _)
CountedAll(c, paths) ==
  IF paths = <<>> THEN c ELSE CountedAll(Counted(c, Head(paths)), Tail(paths))

\* lines 221-234: the finally block
Cleanup ==
  /\ fs' = Unlinked(fs, h.work, h.orig, h.image_path)
  /\ unlink_calls' = CountedAll(unlink_calls, UnlinkArgs(h.work, h.orig, h.image_path))
  /\ user_audio_path' = Pop(user_audio_path, h.user)
  /\ user_image_path' = Pop(user_image_path, h.user)
  /\ user_title' = Pop(user_title, h.user)
  /\ user_artist' = Pop(user_artist, h.user)

\* line 214: reply_document delivers the file, or raises
DocumentSent ==
  /\ h.pc = "ps_doc"
  /\ \E raised \in BOOLEAN :
       IF raised
       THEN /\ h' = [h EXCEPT !.pc = "ps_tagfail"]
            /\ UNCHANGED replies
       ELSE /\ Reply([kind |-> "document", tags |-> fs[h.work].tags])
            /\ h' = [h EXCEPT !.pc = "ps_done"]
  /\ UNCHANGED <<user_audio_path, user_image_path, user_title, user_artist,
                 user_waiting_for, user_processed, HAVE_PYDUB, fs, nextTmp, chat_users, file_limit, event_limit, events,
                 pipeline_runs, unlink_calls, old>>

\* lines 215-217, then the finally block
DoneSent ==
  /\ h.pc = "ps_done"
  /\ Reply([kind |-> "done", tags |-> NoTags])
  /\ user_processed' = Put(user_processed, h.user, TRUE)
  /\ Cleanup
  /\ h' = [h EXCEPT !.pc = "done"]
  /\ UNCHANGED <<user_waiting_for, HAVE_PYDUB, nextTmp, chat_users, file_limit, event_limit, events,
                 pipeline_runs, old>>

\* line 220, then the finally block
TaggingFailedSent ==
  /\ h.pc = "ps_tagfail"
  /\ Reply([kind |-> "tag_failed", tags |-> NoTags])
  /\ Cleanup
  /\ h' = [h EXCEPT !.pc = "done"]
  /\ UNCHANGED <<user_waiting_for, user_processed, HAVE_PYDUB, nextTmp,
                 chat_users, file_limit, event_limit, events, pipeline_runs, old>>

(* ---------------- handle_text ---------------- *)

\* lines 123-133 up to the first await
handle_text(u, text) ==
  /\ Begin
  /\ IF u \notin DOMAIN user_waiting_for
     THEN /\ h' = [Idle EXCEPT !.kind = "text", !.user = u, !.data = text, !.pc = "done"]
          /\ UNCHANGED <<user_waiting_for, user_title, user_artist>>
     ELSE LET mode == user_waiting_for[u]
          IN  /\ user_waiting_for' = Pop(user_waiting_for, u)
              /\ user_title' = IF mode = "title" THEN Put(user_title, u, text) ELSE user_title
              /\ user_artist' = IF mode = "artist" THEN Put(user_artist, u, text) ELSE user_artist
              /\ h' = [Idle EXCEPT !.kind = "text", !.user = u, !.data = text,
                         !.pc = IF mode \in {"title", "artist"}
                                THEN "tx_confirm"
                                ELSE ask_next_action(user_processed, u)]
  /\ UNCHANGED <<user_audio_path, user_image_path, user_processed, HAVE_PYDUB, fs, nextTmp, chat_users, file_limit, event_limit,
                 pipeline_runs, unlink_calls>>

\* lines 129, 132, then line 133 up to the await in ask_next_action
TextConfirmed ==
  /\ h.pc = "tx_confirm"
  /\ Reply([kind |-> "set_to", tags |-> NoTags])
  /\ h' = [h EXCEPT !.pc = ask_next_action(user_processed, h.user)]
  /\ UNCHANGED <<user_audio_path, user_image_path, user_title, user_artist,
                 user_waiting_for, user_processed, HAVE_PYDUB, fs, nextTmp, chat_users, file_limit, event_limit, events,
                 pipeline_runs, unlink_calls, old>>

(* ---------------- handle_photo ---------------- *)

\* lines 136-140 up to "await get_file()"
handle_photo(u) ==
  /\ Begin
  /\ IF ~(u \in DOMAIN user_waiting_for /\ user_waiting_for[u] = "image")
     THEN /\ h' = [Idle EXCEPT !.kind = "photo", !.user = u, !.pc = "done"]
          /\ UNCHANGED user_waiting_for
     ELSE /\ nextTmp <= file_limit
          /\ user_waiting_for' = Pop(user_waiting_for, u)
          /\ h' = [Idle EXCEPT !.kind = "photo", !.user = u, !.pc = "ph_getfile"]
  /\ UNCHANGED <<user_audio_path, user_image_path, user_title, user_artist,
                 user_processed, HAVE_PYDUB, fs, nextTmp, chat_users, file_limit, event_limit,
                 pipeline_runs, unlink_calls>>

\* lines 141-144: the temporary file is created, the download is awaited
PhotoGotFile ==
  /\ h.pc = "ph_getfile"
  /\ fs' = Put(fs, <<nextTmp, "">>, EmptyFile)
  /\ nextTmp' = nextTmp + 1
  /\ h' = [h EXCEPT !.pc = "ph_download", !.tmp = <<nextTmp, "">>]
  /\ UNCHANGED <<user_audio_path, user_image_path, user_title, user_artist,
                 user_waiting_for, user_processed, HAVE_PYDUB, chat_users, file_limit, event_limit, events,
                 pipeline_runs, unlink_calls, replies, old>>

\* the download completes; line 145, then "Image saved!" is awaited
PhotoDownloaded ==
  /\ h.pc = "ph_download"
  /\ \E i \in Images : fs' = Put(fs, h.tmp, ImageFile(i))
  /\ user_image_path' = Put(user_image_path, h.user, h.tmp)
  /\ h' = [h EXCEPT !.pc = "ph_saved"]
  /\ UNCHANGED <<user_audio_path, user_title, user_artist,
                 user_waiting_for, user_processed, HAVE_PYDUB, nextTmp, chat_users, file_limit, event_limit, events,
                 pipeline_runs, unlink_calls, replies, old>>

\* line 146, then line 147 up to the await in ask_next_action
ImageSavedSent ==
  /\ h.pc = "ph_saved"
  /\ Reply([kind |-> "image_saved", tags |-> NoTags])
  /\ h' = [h EXCEPT !.pc = ask_next_action(user_processed, h.user)]
  /\ UNCHANGED <<user_audio_path, user_image_path, user_title, user_artist,
                 user_waiting_for, user_processed, HAVE_PYDUB, fs, nextTmp, chat_users, file_limit, event_limit, events,
                 pipeline_runs, unlink_calls, old>>

Next ==
  \/ \E u \in chat_users : start(u)
  \/ StartReplied
  \/ \E u \in chat_users : handle_audio(u)
  \/ AudioGotFile
  \/ AudioDownloaded
  \/ \E u \in chat_users, d \in Buttons : handle_callback(u, d)
  \/ CallbackAnswered
  \/ AlreadySent
  \/ PromptSent
  \/ NoAudioSent
  \/ ConversionErrorSent
  \/ DocumentSent
  \/ DoneSent
  \/ TaggingFailedSent
  \/ \E u \in chat_users, t \in Texts : handle_text(u, t)
  \/ TextConfirmed
  \/ \E u \in chat_users : handle_photo(u)
  \/ PhotoGotFile
  \/ PhotoDownloaded
  \/ ImageSavedSent
  \/ MenuSent
  \/ Return

Spec == Init /\ [][Next]_vars

SpecTwoUsers == InitTwoUsers /\ [][Next]_vars

(* ======================================================================= *)
(* Properties.  While a handler runs, old is the six dictionaries as they   *)
(* were when it started; h keeps its locals after it has finished           *)
(* (h.pc = "done") until the dispatcher takes the next update.              *)
(* ======================================================================= *)

OldAudio == old[1]

OldImage == old[2]

OldTitle == old[3]

OldArtist == old[4]

OldWaiting == old[5]

OldProcessed == old[6]

\* the entry of key k, as a list of zero or one value
Entry(d, k) == IF k \in DOMAIN d THEN <<d[k]>> ELSE <<>>

R(k) == [kind |-> k, tags |-> NoTags]

FinishPressed == h.kind = "callback" /\ h.data = "finish"

\* the finish press ran the pipeline and the conversion raised
ConversionFailed == FinishPressed /\ h.orig # NoPath /\ h.work = NoPath

\* the finish press got past the conversion, into the try block of line 180
ReachedTagging == FinishPressed /\ h.work # NoPath

Purged(u) ==
  /\ u \notin DOMAIN user_audio_path
  /\ u \notin DOMAIN user_image_path
  /\ u \notin DOMAIN user_title
  /\ u \notin DOMAIN user_artist

\* C1: a finish press whose audio cannot be brought to MP3 replies with the
\* conversion error only, deletes the original audio file and removes the
\* user's audio, image, title and artist entries.
C1_ConversionErrorCleansUp ==
  (h.pc = "done" /\ ConversionFailed) =>
     /\ replies = <<R("conv_error")>>
     /\ h.orig \notin DOMAIN fs
     /\ Purged(h.user)

\* C2: when a finish press that reached the tagging stage has completed,
\* tagging having succeeded or raised, the original audio, the working copy
\* and the cover image of the session do not exist and the user has no audio,
\* image, title or artist entry.
C2_FinalizerCleans ==
  (h.pc = "done" /\ ReachedTagging) =>
     /\ OldAudio[h.user] \notin DOMAIN fs
     /\ Mp3Path(OldAudio[h.user]) \notin DOMAIN fs
     /\ h.work \notin DOMAIN fs
     /\ (h.user \in DOMAIN OldImage => OldImage[h.user] \notin DOMAIN fs)
     /\ Purged(h.user)

\* a finish that failed in tagging, on a converted working copy, with a cover
C2_Witness ==
  /\ h.pc = "done"
  /\ ReachedTagging
  /\ h.work # h.orig
  /\ h.user \in DOMAIN OldImage
  /\ replies = <<R("tag_failed")>>

\* C3: a button press of a finalized user changes none of the six
\* dictionaries at any step and is answered by the "already processed" reply
\* and nothing else.
C3_ButtonAfterFinalized ==
  (h.kind = "callback" /\ Truthy(OldProcessed, h.user)) =>
     /\ Store = old
     /\ replies = IF h.pc = "done" THEN <<R("already")>> ELSE <<>>

C3_Witness ==
  /\ h.kind = "callback"
  /\ h.data = "settitle"
  /\ h.pc = "done"
  /\ Truthy(OldProcessed, h.user)

\* C4: while a user stays finalized, no step changes that user's title,
\* artist, image reference or awaited field.
C4_NoMutationAfterFinalized ==
  [][\A u \in Users :
       (Truthy(user_processed, u) /\ Truthy(user_processed', u)) =>
          /\ Entry(user_title', u) = Entry(user_title, u)
          /\ Entry(user_artist', u) = Entry(user_artist, u)
          /\ Entry(user_image_path', u) = Entry(user_image_path, u)
          /\ Entry(user_waiting_for', u) = Entry(user_waiting_for, u)]_vars

\* C5: while a user has no audio binding, no step creates an awaited field,
\* a title, an artist or an image entry for that user.
C5_NoSessionNoEntries ==
  [][\A u \in Users :
       (u \notin DOMAIN user_audio_path /\ u \notin DOMAIN user_audio_path') =>
          /\ (u \in DOMAIN user_waiting_for' => u \in DOMAIN user_waiting_for)
          /\ (u \in DOMAIN user_title' => u \in DOMAIN user_title)
          /\ (u \in DOMAIN user_artist' => u \in DOMAIN user_artist)
          /\ (u \in DOMAIN user_image_path' => u \in DOMAIN user_image_path)]_vars

\* C6: a finish press that ran the pipeline on a session with audio leaves
\* the session finalized when it returns, on success and on failure.
C6_FinishFinalizes ==
  (h.pc = "done" /\ FinishPressed /\ h.orig # NoPath) => Truthy(user_processed, h.user)

\* C7: once handle_audio has made its assignments, the user has no title, no
\* artist and no image reference, is not finalized, and the audio binding is
\* the file just downloaded, which no earlier session referred to.
C7_UploadResets ==
  (h.kind = "audio" /\ h.pc \in {"menu", "done"}) =>
     /\ h.user \notin DOMAIN user_title
     /\ h.user \notin DOMAIN user_artist
     /\ h.user \notin DOMAIN user_image_path
     /\ h.user \in DOMAIN user_processed /\ user_processed[h.user] = FALSE
     /\ h.user \in DOMAIN user_audio_path /\ user_audio_path[h.user] = h.tmp
     /\ h.tmp \in DOMAIN fs /\ fs[h.tmp] \in Uploads
     /\ Entry(OldAudio, h.user) # <<h.tmp>>
     /\ Entry(OldImage, h.user) # <<h.tmp>>

\* an upload over a session that held a title, an artist and an image
C7_Witness ==
  /\ h.kind = "audio"
  /\ h.pc = "done"
  /\ h.user \in DOMAIN OldTitle
  /\ h.user \in DOMAIN OldArtist
  /\ h.user \in DOMAIN OldImage
  /\ h.user \in DOMAIN OldAudio

\* the frame the claim expects: the user's value when one is set and not
\* empty, else what the file held, else none
Expected(userValue, held, got) ==
  /\ (userValue # <<>> /\ userValue # <<"">>) => got = userValue
  /\ (userValue = <<>> /\ held # NoFrame) => got = held
  /\ (userValue = <<>> /\ held = NoFrame) => got = NoFrame

\* C8: after a successful tagging run, title and artist of the file each
\* equal the session's value if the user set a non-empty one, otherwise the
\* value the file held before, and are absent if there is neither; the
\* document delivered carries the same.
C8_TitleArtistMerge ==
  /\ h.pc \in {"ps_doc", "ps_done"} =>
       /\ Expected(Entry(user_title, h.user), h.pre.TIT2, fs[h.work].tags.TIT2)
       /\ Expected(Entry(user_artist, h.user), h.pre.TPE1, fs[h.work].tags.TPE1)
  /\ (h.pc \in {"ps_done", "done"} /\ ReachedTagging /\ replies # <<>>
        /\ replies[1].kind = "document") =>
       /\ Expected(Entry(OldTitle, h.user), h.pre.TIT2, replies[1].tags.TIT2)
       /\ Expected(Entry(OldArtist, h.user), h.pre.TPE1, replies[1].tags.TPE1)

\* the title overwritten and the artist preserved in one run
C8_Witness ==
  /\ h.pc = "ps_done"
  /\ h.user \in DOMAIN user_title
  /\ h.pre.TIT2 = <<"oldT">>
  /\ fs[h.work].tags.TIT2 = <<"T1">>
  /\ h.user \notin DOMAIN user_artist
  /\ fs[h.work].tags.TPE1 = <<"oldA">>

\* C9: a finish press that succeeds on a session holding only a title T (the
\* state after upload, settitle, text T) delivers exactly a document and then
\* the success text, and the document has title T and the artist and the
\* pictures of the uploaded file.
C9_TitleOnlyEndToEnd ==
  (/\ h.pc = "done"
   /\ FinishPressed
   /\ Truthy(user_processed, h.user)
   /\ ~Truthy(OldProcessed, h.user)
   /\ h.user \in DOMAIN OldTitle
   /\ h.user \notin DOMAIN OldArtist
   /\ h.user \notin DOMAIN OldImage) =>
     /\ Len(replies) = 2
     /\ replies[1].kind = "document"
     /\ replies[2] = R("done")
     /\ replies[1].tags.TIT2 = <<OldTitle[h.user]>>
     /\ replies[1].tags.TPE1 = h.src.TPE1
     /\ replies[1].tags.APIC = h.src.APIC

\* C10: a text message while nothing or the image is awaited, and a photo
\* while nothing, the title or the artist is awaited, returns at once with no
\* dictionary changed and no reply.
C10_UnexpectedInputIgnored ==
  (\/ /\ h.kind = "text"
      /\ Entry(OldWaiting, h.user) \in {<<>>, <<"image">>}
   \/ /\ h.kind = "photo"
      /\ Entry(OldWaiting, h.user) \in {<<>>, <<"title">>, <<"artist">>}) =>
     /\ h.pc = "done"
     /\ Store = old
     /\ replies = <<>>

\* C11: the pipeline is started at most once on an uploaded file: a finish
\* press never starts it on a file an earlier finish press already started
\* it on, whether that earlier run failed or not.
C11_PipelineOncePerUpload ==
  [][(h.pc = "cb_answer" /\ h'.orig # NoPath) => h'.orig \notin pipeline_runs]_vars

\* C12: every step of a finish press by a user who is not finalized and has
\* no audio binding leaves the six dictionaries and the files as they are,
\* starts no pipeline and unlinks nothing, and the press is answered by the
\* "No audio found" notice alone.
C12_FinishWithoutAudio ==
  [][(/\ h'.kind = "callback"
      /\ h'.data = "finish"
      /\ ~Truthy(old'[6], h'.user)
      /\ h'.user \notin DOMAIN old'[1]) =>
        /\ Store' = Store
        /\ fs' = fs
        /\ pipeline_runs' = pipeline_runs
        /\ unlink_calls' = unlink_calls
        /\ replies' = IF h'.pc = "done" THEN <<R("no_audio")>> ELSE <<>>]_vars

\* such a press, answered, with a field still awaited
C12_Witness ==
  /\ FinishPressed
  /\ h.pc = "done"
  /\ ~Truthy(OldProcessed, h.user)
  /\ h.user \notin DOMAIN OldAudio
  /\ h.user \in DOMAIN user_waiting_for
  /\ replies = <<R("no_audio")>>

\* the user whose handler takes the step
Acting == IF h'.kind # "none" THEN h'.user ELSE h.user

\* the files user b's session refers to
FilesOf(b) ==
  {p \in DOMAIN fs : Entry(user_audio_path, b) = <<p>> \/ Entry(user_image_path, b) = <<p>>}

C14_CoverArt ==
  /\ h.pc \in {"ps_doc", "ps_done"} =>
       fs[h.work].tags.APIC =
         IF h.user \in DOMAIN user_image_path
         THEN {[desc |-> "Cover", data |-> "jpeg1", type |-> FrontCover,
                mime |-> "image/jpeg"]}
         ELSE h.pre.APIC
  /\ (h.pc \in {"ps_done", "done"} /\ ReachedTagging /\ replies # <<>>
        /\ replies[1].kind = "document") =>
       replies[1].tags.APIC =
         IF h.user \in DOMAIN OldImage
         THEN {[desc |-> "Cover", data |-> "jpeg1", type |-> FrontCover,
                mime |-> "image/jpeg"]}
         ELSE h.pre.APIC

\* two pre-existing pictures replaced by the single new cover
C14_Witness ==
  /\ h.pc = "ps_done"
  /\ h.user \in DOMAIN user_image_path
  /\ h.pre.APIC = {OldPic, OldPic2}
  /\ Cardinality(fs[h.work].tags.APIC) = 1

\* the running text or photo handler found its input awaited and took it
Consumed ==
  \/ h.kind = "text" /\ Entry(OldWaiting, h.user) \in {<<"title">>, <<"artist">>}
  \/ h.kind = "photo" /\ Entry(OldWaiting, h.user) = <<"image">>

\* C15: once a text or photo handler has consumed the awaited input the user
\* has no pending question, and when that handler completes its last reply
\* is the menu.
C15_ConsumedThenMenu ==
  Consumed =>
    /\ h.user \notin DOMAIN user_waiting_for
    /\ h.pc = "done" => (replies # <<>> /\ replies[Len(replies)] = R("menu"))

\* C16: when handle_audio has completed, the uploading user has no pending
\* question, so a text or photo sent next is not taken as an answer.
C16_UploadClearsPending ==
  (h.kind = "audio" /\ h.pc = "done") => h.user \notin DOMAIN user_waiting_for

\* the paths some session refers to
Referenced ==
  {p \in DOMAIN fs : \E u \in Users :
     Entry(user_audio_path, u) = <<p>> \/ Entry(user_image_path, u) = <<p>>}

\* C17: between two updates, every temporary file that exists is the audio
\* or the image of some user's session.
C17_NoDanglingFile ==
  h.pc = "idle" => DOMAIN fs = Referenced

\* C18: a reply goes out only when the change it announces is already made.
\* A step that adds a reply is the completion of a send that was requested
\* in the state before the step, so that state must already show: for the
\* prompt the pending field, for a confirmation the stored value, for the
\* document and the success text the finalized mark and the purged entries.
C18_ReplyAfterMutation ==
  [][Len(replies') = Len(replies) + 1 =>
       LET r == replies'[Len(replies')]
           u == h.user
       IN  /\ r.kind = "prompt" => Entry(user_waiting_for, u) = <<WaitingFor(h.data)>>
           /\ r.kind = "set_to" =>
                IF OldWaiting[u] = "title"
                THEN Entry(user_title, u) = <<h.data>>
                ELSE Entry(user_artist, u) = <<h.data>>
           /\ r.kind = "image_saved" => Entry(user_image_path, u) = <<h.tmp>>
           /\ r.kind \in {"document", "done"} =>
                Truthy(user_processed, u) /\ Purged(u)]_vars

\* C19: os.unlink is called at most once on any path, within one finish run
\* (working copy and original being the same file) and over all of them.
C19_UnlinkedOnce ==
  \A p \in DOMAIN unlink_calls : unlink_calls[p] <= 1

\* a finish whose working copy is the original has unlinked it once, after
\* an earlier finalization unlinked another audio file
C19_Witness ==
  /\ h.pc = "done"
  /\ ReachedTagging
  /\ h.work = h.orig
  /\ h.orig \in DOMAIN unlink_calls
  /\ unlink_calls[h.orig] = 1
  /\ \E p \in DOMAIN unlink_calls : p # h.orig /\ p # h.image_path

\* C20: in every state, await points included, a user whose user_processed
\* is true has no entry in user_audio_path.
C20_FinalizedHasNoAudio ==
  \A u \in Users : Truthy(user_processed, u) => u \notin DOMAIN user_audio_path

\* an upload after a finalization: at the await of the menu the user holds
\* audio again and the flag is false
C20_Witness ==
  /\ h.kind = "audio"
  /\ h.pc = "menu"
  /\ Truthy(OldProcessed, h.user)
  /\ ~Truthy(user_processed, h.user)
  /\ h.user \in DOMAIN user_audio_path

====
